---- MODULE Spec2Model ----
(***************************************************************************)
(* A model of watermark.py: the EXIF date reader, the position calculator, *)
(* the colour parser and the batch loop of process_directory, driven by    *)
(* main.  Python strings are sequences of one-character strings, so that   *)
(* lower(), endswith(), split(), splitext() and the path functions are     *)
(* computed character by character, as the interpreter computes them.      *)
(***************************************************************************)
EXTENDS Integers, Sequences, FiniteSets, TLC

VARIABLES
    \* calculate_position: its arguments and its return value
    img_width, img_height, text_width, text_height, position, xy,
    \* main: the command line, the parsed colour, the exit status
    input_path, color_str, color, success, exit_code,
    \* the file system: directories, regular files, files no codec can decode
    dirs, files, corrupt,
    \* process_directory: the locals of the call in progress
    pc, output_dir, todo, processed_count, tags, exif_date, date_str,
    \* history of the current run and of the one before it
    run, cause, start, written, attempted, opened, prev

vars == <<img_width, img_height, text_width, text_height, position, xy,
          input_path, color_str, color, success, exit_code, dirs, files, corrupt,
          pc, output_dir, todo, processed_count, tags, exif_date, date_str,
          run, cause, start, written, attempted, opened, prev>>

posVars == <<img_width, img_height, text_width, text_height, position, xy>>
fsVars == <<dirs, files, corrupt>>
argVars == <<input_path, color_str>>

----------------------------------------------------------------------------
\* Bounds of the model

\* image sides range over 0..MaxImg, text sides over 0..MaxText
MaxImg == 24
MaxText == 3
\* '#'-prefixed colour strings carry at most MaxHexLen characters after '#'
MaxHexLen == 8
\* at most MaxEntries entries in the input directory
MaxEntries == 3
\* the program is run at most MaxRuns times on the same arguments
MaxRuns == 2

----------------------------------------------------------------------------
\* Python str methods

UPPER == <<"A", "B", "C", "D", "E", "F", "G", "H", "I", "J", "K", "L", "M",
           "N", "O", "P", "Q", "R", "S", "T", "U", "V", "W", "X", "Y", "Z">>
LOWER == <<"a", "b", "c", "d", "e", "f", "g", "h", "i", "j", "k", "l", "m",
           "n", "o", "p", "q", "r", "s", "t", "u", "v", "w", "x", "y", "z">>

LowerChar(c) ==
    IF \E i \in 1..Len(UPPER) : UPPER[i] = c
    THEN LOWER[CHOOSE i \in 1..Len(UPPER) : UPPER[i] = c]
    ELSE c

lower(s) == [i \in 1..Len(s) |-> LowerChar(s[i])]

startswith(s, prefix) ==
    /\ Len(s) >= Len(prefix)
    /\ SubSeq(s, 1, Len(prefix)) = prefix

endswith(s, suffix) ==
    /\ Len(s) >= Len(suffix)
    /\ SubSeq(s, Len(s) - Len(suffix) + 1, Len(s)) = suffix

\* s.endswith(t) for a tuple t of suffixes
endswith_any(s, suffixes) == \E i \in 1..Len(suffixes) : endswith(s, suffixes[i])

\* s.rfind(c) + 1: the 1-based index of the last c in s, 0 when there is none
rfind(s, c) ==
    IF \E i \in 1..Len(s) : s[i] = c
    THEN CHOOSE i \in 1..Len(s) : s[i] = c /\ \A j \in (i+1)..Len(s) : s[j] # c
    ELSE 0

\* s.rstrip(chars)
rstrip(s, chars) ==
    IF \E i \in 1..Len(s) : s[i] \notin chars
    THEN SubSeq(s, 1, CHOOSE i \in 1..Len(s) :
                         s[i] \notin chars /\ \A j \in (i+1)..Len(s) : s[j] \in chars)
    ELSE <<>>

WHITESPACE == {" "}

\* s.split(): the whitespace-separated fields of s, none of them empty
RECURSIVE split(_)
split(s) ==
    IF \A i \in 1..Len(s) : s[i] \in WHITESPACE
    THEN <<>>
    ELSE LET b == CHOOSE i \in 1..Len(s) :
                      s[i] \notin WHITESPACE /\ \A j \in 1..(i-1) : s[j] \in WHITESPACE
             e == IF \E i \in b..Len(s) : s[i] \in WHITESPACE
                  THEN (CHOOSE i \in b..Len(s) :
                            s[i] \in WHITESPACE /\ \A j \in b..(i-1) : s[j] \notin WHITESPACE) - 1
                  ELSE Len(s)
         IN  <<SubSeq(s, b, e)>> \o split(SubSeq(s, e + 1, Len(s)))

----------------------------------------------------------------------------
\* os.path (posix)

SEP == "/"

dirname(p) ==
    LET head == SubSeq(p, 1, rfind(p, SEP))
    IN  IF head # <<>> /\ \E i \in 1..Len(head) : head[i] # SEP
        THEN rstrip(head, {SEP})
        ELSE head

basename(p) == SubSeq(p, rfind(p, SEP) + 1, Len(p))

join(a, b) ==
    IF startswith(b, <<SEP>>) THEN b
    ELSE IF a = <<>> \/ endswith(a, <<SEP>>) THEN a \o b
    ELSE a \o <<SEP>> \o b

\* os.path.splitext: <<root, ext>>; leading dots of the last component are
\* part of the root
splitext(p) ==
    LET sepIndex == rfind(p, SEP)
        dotIndex == rfind(p, ".")
    IN  IF /\ dotIndex > sepIndex
           /\ \E k \in (sepIndex + 1)..(dotIndex - 1) : p[k] # "."
        THEN <<SubSeq(p, 1, dotIndex - 1), SubSeq(p, dotIndex, Len(p))>>
        ELSE <<p, <<>>>>

----------------------------------------------------------------------------
\* calculate_position

padding == 20

Anchors == {"top-left", "top-right", "bottom-left", "bottom-right", "center"}

\* the quotient rounded toward zero
TruncDiv(a, b) == IF a >= 0 THEN a \div b ELSE -((-a) \div b)

\* Python's //: the quotient rounded toward minus infinity
FloorDiv(a, b) == a \div b

\* position_map with the padding added to, not subtracted from, the far edge
position_map_plus(iw, ih, tw, th) ==
    [a \in Anchors |->
        CASE a = "top-left"     -> <<padding, padding>>
          [] a = "top-right"    -> <<iw - tw + padding, padding>>
          [] a = "bottom-left"  -> <<padding, ih - th + padding>>
          [] a = "bottom-right" -> <<iw - tw + padding, ih - th + padding>>
          [] a = "center"       -> <<FloorDiv(iw - tw, 2), FloorDiv(ih - th, 2)>>]

position_map(iw, ih, tw, th) ==
    [a \in Anchors |->
        CASE a = "top-left"     -> <<padding, padding>>
          [] a = "top-right"    -> <<iw - tw - padding, padding>>
          [] a = "bottom-left"  -> <<padding, ih - th - padding>>
          [] a = "bottom-right" -> <<iw - tw - padding, ih - th - padding>>
          [] a = "center"       -> <<FloorDiv(iw - tw, 2), FloorDiv(ih - th, 2)>>]

calculate_position(iw, ih, tw, th, pos) ==
    IF pos \in Anchors
    THEN position_map(iw, ih, tw, th)[pos]
    ELSE position_map(iw, ih, tw, th)["bottom-right"]

----------------------------------------------------------------------------
\* parse_color

HEXDIGITS == <<"0", "1", "2", "3", "4", "5", "6", "7", "8", "9",
               "a", "b", "c", "d", "e", "f">>

IsHexDigit(c) == \E i \in 1..Len(HEXDIGITS) : HEXDIGITS[i] = c

HexVal(c) == (CHOOSE i \in 1..Len(HEXDIGITS) : HEXDIGITS[i] = c) - 1

\* int(s, 16) of a two-digit string
Int16(hi, lo) == 16 * HexVal(hi) + HexVal(lo)

Ok(v) == [ok |-> TRUE, value |-> v]
ValueError == [ok |-> FALSE, value |-> <<>>]

\* re.match("#[a-f0-9]{n}$", c)
MatchHex(c, n) ==
    /\ Len(c) = n + 1
    /\ c[1] = "#"
    /\ \A i \in 2..Len(c) : IsHexDigit(c[i])

\* the entries of PIL.ImageColor.colormap that the modelled inputs can name
pil_colormap == {
    [name |-> <<"t", "a", "n">>, rgb |-> <<210, 180, 140>>] }

\* PIL.ImageColor.getrgb on a colour name or a hexadecimal specifier
getrgb(color_in) ==
    LET c == lower(color_in)
    IN  IF \E e \in pil_colormap : e.name = c
        THEN Ok((CHOOSE e \in pil_colormap : e.name = c).rgb)
        ELSE IF MatchHex(c, 3)
        THEN Ok(<<Int16(c[2], c[2]), Int16(c[3], c[3]), Int16(c[4], c[4])>>)
        ELSE IF MatchHex(c, 4)
        THEN Ok(<<Int16(c[2], c[2]), Int16(c[3], c[3]), Int16(c[4], c[4]),
                  Int16(c[5], c[5])>>)
        ELSE IF MatchHex(c, 6)
        THEN Ok(<<Int16(c[2], c[3]), Int16(c[4], c[5]), Int16(c[6], c[7])>>)
        ELSE IF MatchHex(c, 8)
        THEN Ok(<<Int16(c[2], c[3]), Int16(c[4], c[5]), Int16(c[6], c[7]),
                  Int16(c[8], c[9])>>)
        ELSE ValueError

color_map == {
    [name |-> <<"b", "l", "a", "c", "k">>,           rgb |-> <<0, 0, 0>>],
    [name |-> <<"w", "h", "i", "t", "e">>,           rgb |-> <<255, 255, 255>>],
    [name |-> <<"r", "e", "d">>,                     rgb |-> <<255, 0, 0>>],
    [name |-> <<"g", "r", "e", "e", "n">>,           rgb |-> <<0, 128, 0>>],
    [name |-> <<"b", "l", "u", "e">>,                rgb |-> <<0, 0, 255>>],
    [name |-> <<"y", "e", "l", "l", "o", "w">>,      rgb |-> <<255, 255, 0>>],
    [name |-> <<"c", "y", "a", "n">>,                rgb |-> <<0, 255, 255>>],
    [name |-> <<"m", "a", "g", "e", "n", "t", "a">>, rgb |-> <<255, 0, 255>>],
    [name |-> <<"g", "r", "a", "y">>,                rgb |-> <<128, 128, 128>>],
    [name |-> <<"g", "r", "e", "y">>,                rgb |-> <<128, 128, 128>>],
    [name |-> <<"o", "r", "a", "n", "g", "e">>,      rgb |-> <<255, 165, 0>>],
    [name |-> <<"p", "u", "r", "p", "l", "e">>,      rgb |-> <<128, 0, 128>>],
    [name |-> <<"p", "i", "n", "k">>,                rgb |-> <<255, 192, 203>>],
    [name |-> <<"b", "r", "o", "w", "n">>,           rgb |-> <<165, 42, 42>>] }

parse_color(s) ==
    IF \E e \in color_map : e.name = lower(s)
    THEN Ok((CHOOSE e \in color_map : e.name = lower(s)).rgb)
    ELSE IF startswith(s, <<"#">>)
    THEN getrgb(s)
    ELSE getrgb(s)

----------------------------------------------------------------------------
\* get_exif_date

None == [none |-> TRUE, str |-> <<>>]
Some(s) == [none |-> FALSE, str |-> s]

DateTimeOriginal == "EXIF DateTimeOriginal"
ImageDateTime == "Image DateTime"

\* str(tag).split()[0]; the IndexError of a tag without any field is caught
\* by the function's except clause, which falls through to return None
DatePart(value) ==
    IF split(value) = <<>> THEN None ELSE Some(split(value)[1])

\* the reader with the two tags looked up in the opposite order
get_exif_date_generic_first(exif) ==
    IF ~exif.readable THEN None
    ELSE IF ImageDateTime \in DOMAIN exif.tags
    THEN DatePart(exif.tags[ImageDateTime])
    ELSE IF DateTimeOriginal \in DOMAIN exif.tags
    THEN DatePart(exif.tags[DateTimeOriginal])
    ELSE None

\* exif: [readable, tags]; readable is FALSE when open() or
\* exifread.process_file raises
get_exif_date(exif) ==
    IF ~exif.readable THEN None
    ELSE IF DateTimeOriginal \in DOMAIN exif.tags
    THEN DatePart(exif.tags[DateTimeOriginal])
    ELSE IF ImageDateTime \in DOMAIN exif.tags
    THEN DatePart(exif.tags[ImageDateTime])
    ELSE None

\* datetime.now().strftime("%Y:%m:%d")
Today == <<"2", "0", "2", "6", ":", "1", "1", ":", "0", "2">>

\* if not date_str: date_str = <today>
WatermarkText(d) == IF d.none \/ d.str = <<>> THEN Today ELSE d.str

----------------------------------------------------------------------------
\* The file system, as os and os.path see it

isfile(p) == p \in files

isdir(p) == p # <<>> /\ rstrip(p, {SEP}) \in dirs

exists(p) == isfile(p) \/ isdir(p)

listdir(p) ==
    {basename(q) : q \in {r \in dirs \cup files : dirname(r) = rstrip(p, {SEP})}}

\* a path and the directories above it
Prefixes(p) ==
    {p} \cup {SubSeq(p, 1, k - 1) : k \in {i \in 2..Len(p) : p[i] = SEP}}

\* os.makedirs(p, exist_ok=True) raises when p, or a directory above it, is a
\* regular file
makedirs_raises(p) == \E a \in Prefixes(p) : a \in files

----------------------------------------------------------------------------
\* process_directory: the paths

WATERMARK == <<"_", "w", "a", "t", "e", "r", "m", "a", "r", "k">>

image_extensions ==
    << <<".", "j", "p", "g">>, <<".", "j", "p", "e", "g">>, <<".", "p", "n", "g">>,
       <<".", "t", "i", "f", "f">>, <<".", "b", "m", "p">>, <<".", "g", "i", "f">>,
       <<".", "w", "e", "b", "p">> >>

\* the extension test without lower()
IsImageFileCaseSensitive(file_path) == endswith_any(file_path, image_extensions)

IsImageFile(file_path) == endswith_any(lower(file_path), image_extensions)

BaseDir(path) == IF isfile(path) THEN dirname(path) ELSE path

OutputDir(path) ==
    join(BaseDir(path), basename(rstrip(BaseDir(path), {SEP, "\\"})) \o WATERMARK)

\* the output written beside the input, under the input's own name
OutputPathInPlace(out_dir, file_path) ==
    join(dirname(file_path), basename(file_path))

OutputPath(out_dir, file_path) ==
    LET filename == basename(file_path)
        name == splitext(filename)[1]
        ext == splitext(filename)[2]
    IN  join(out_dir, name \o WATERMARK \o ext)

\* a listing that descends into the subdirectories
ListFilesRecursive(path) ==
    IF isfile(path) THEN {path}
    ELSE {f \in files : startswith(f, rstrip(path, {SEP}) \o <<SEP>>)}

ListFiles(path) ==
    IF isfile(path) THEN {path}
    ELSE {join(path, f) : f \in {g \in listdir(path) : isfile(join(path, g))}}

\* Image.open(image_path) ... image.save(output_path): raises on a file no
\* codec decodes, on an output name whose extension names no format, and on
\* an output path that is a directory
RenderRaises(file_path, output_path) ==
    \/ file_path \in corrupt
    \/ \A i \in 1..Len(image_extensions) :
           image_extensions[i] # lower(splitext(output_path)[2])
    \/ isdir(output_path)

----------------------------------------------------------------------------
\* The inputs of the model

P == <<"p">>
PSlash == <<"p", "/">>
PFile == <<"p", "/", "a", ".", "j", "p", "g">>
T == <<"t", ".", "p", "n", "g">>
Q == <<"q">>

\* a directory, the same with a trailing separator, a path inside it, a file
\* of the working directory, a path that does not exist
InputPaths == {P, PSlash, PFile, T, Q}

AJpg == <<"a", ".", "j", "p", "g">>
AJPG == <<"a", ".", "J", "P", "G">>
NTxt == <<"n", ".", "t", "x", "t">>
DotJpg == <<".", "j", "p", "g">>

EntryNames == {AJpg, AJPG, NTxt, DotJpg}

\* what an entry of that name can be: a file, a file no codec decodes, a
\* subdirectory
EntryKinds(n) ==
    IF n = AJpg THEN {"file", "corrupt", "dir"}
    ELSE IF n = AJPG THEN {"file", "corrupt"}
    ELSE {"file"}

\* the contents of directory p: which names it holds, and as what
Layouts ==
    UNION {{l \in [S -> {"file", "corrupt", "dir"}] : \A n \in S : l[n] \in EntryKinds(n)} :
              S \in {X \in SUBSET EntryNames : Cardinality(X) <= MaxEntries}}

PWatermark == join(P, P \o WATERMARK)

White == <<"W", "H", "I", "T", "E">>
Nope == <<"n", "o", "p", "e">>

HexAlphabet == {"0", "F", "z"}

\* '#' followed by at most maxlen characters of the alphabet
HexStrings(maxlen) ==
    UNION {{<<"#">> \o b : b \in [1..n -> HexAlphabet]} : n \in 0..maxlen}

ColorNames == {e.name : e \in color_map \cup pil_colormap}

MixedCase == {<<"#", "a", "B", "c">>, <<"#", "a", "B", "c", "D", "e", "f">>}

ColorInputs(maxlen) ==
    HexStrings(maxlen) \cup ColorNames \cup MixedCase \cup {White, Nope}

Stamp1 == <<"2", "0", "2", "3", ":", "0", "1", ":", "1", "5", " ",
            "1", "0", ":", "3", "0", ":", "0", "0">>
Stamp2 == <<"1", "9", "9", "9", ":", "1", "2", ":", "3", "1", " ",
            "2", "3", ":", "5", "9", ":", "5", "9">>
Blank == <<" ", " ">>

\* the values a date tag can carry
TagValues(tag) == IF tag = DateTimeOriginal THEN {Stamp1, Blank} ELSE {Stamp2, Blank}

\* what exifread can report of a file: nothing (open or process_file raises),
\* or any of the two date tags, each with a time stamp or blank
ExifFiles ==
    {[readable |-> FALSE, tags |-> <<>>]} \cup
    {[readable |-> TRUE, tags |-> t] :
        t \in UNION {{u \in [S -> {Stamp1, Stamp2, Blank}] : \A k \in S : u[k] \in TagValues(k)} :
                        S \in SUBSET {DateTimeOriginal, ImageDateTime}}}

NoExif == [readable |-> FALSE, tags |-> <<>>]
NoColor == [ok |-> FALSE, value |-> <<>>]
NoRun == [ran |-> FALSE, cause |-> "none", dirs |-> {}, files |-> {},
          written |-> {}, count |-> 0, exit_code |-> -1]

----------------------------------------------------------------------------
\* Initial states

InitLocals ==
    /\ pc = "main"
    /\ color = NoColor
    /\ success = FALSE
    /\ exit_code = -1
    /\ output_dir = <<>>
    /\ todo = {}
    /\ processed_count = 0
    /\ tags = NoExif
    /\ exif_date = None
    /\ date_str = <<>>
    /\ xy = <<>>
    /\ cause = "running"
    /\ written = {}
    /\ attempted = <<>>
    /\ opened = {}

Init ==
    /\ img_width = MaxImg /\ img_height = MaxImg
    /\ text_width = MaxText /\ text_height = MaxText
    /\ position = "bottom-right"
    /\ input_path \in InputPaths
    /\ color_str \in {White, Nope}
    /\ \E layout \in Layouts, wm \in {"absent", "file"} :
          /\ dirs = {P} \cup {join(P, n) : n \in {m \in DOMAIN layout : layout[m] = "dir"}}
          /\ files = {T} \cup {join(P, n) : n \in {m \in DOMAIN layout : layout[m] # "dir"}}
                         \cup (IF wm = "file" THEN {PWatermark} ELSE {})
          /\ corrupt = {join(P, n) : n \in {m \in DOMAIN layout : layout[m] = "corrupt"}}
    /\ InitLocals
    /\ run = 1
    /\ start = [dirs |-> dirs, files |-> files]
    /\ prev = NoRun

----------------------------------------------------------------------------
\* main and process_directory, step by step

\* main: color = parse_color(args.color); a ValueError ends in sys.exit(1)
MainParseColor ==
    /\ pc = "main"
    /\ color' = parse_color(color_str)
    /\ IF color'.ok
       THEN /\ pc' = "process"
            /\ UNCHANGED <<exit_code, cause>>
       ELSE /\ pc' = "exit"
            /\ exit_code' = 1
            /\ cause' = "bad_color"
    /\ UNCHANGED <<posVars, argVars, fsVars, success, output_dir, todo,
                   processed_count, tags, exif_date, date_str, run, start, written,
                   attempted, opened, prev>>

\* the check of the input path made only after the output directory exists
CheckPathLate ==
    /\ pc = "process"
    /\ pc' = "mkdir"
    /\ UNCHANGED <<posVars, argVars, fsVars, color, success, exit_code, output_dir,
                   todo, processed_count, tags, exif_date, date_str, run, cause, start,
                   written, attempted, opened, prev>>

\* process_directory: if not os.path.exists(input_path): return False
CheckPath ==
    /\ pc = "process"
    /\ IF exists(input_path)
       THEN /\ pc' = "mkdir"
            /\ UNCHANGED <<success, cause>>
       ELSE /\ pc' = "returned"
            /\ success' = FALSE
            /\ cause' = "no_path"
    /\ UNCHANGED <<posVars, argVars, fsVars, color, exit_code, output_dir, todo,
                   processed_count, tags, exif_date, date_str, run, start, written,
                   attempted, opened, prev>>

\* process_directory: the output directory is computed and created
MakeOutputDir ==
    /\ pc = "mkdir"
    /\ output_dir' = OutputDir(input_path)
    /\ IF makedirs_raises(OutputDir(input_path))
       THEN /\ pc' = "returned"
            /\ success' = FALSE
            /\ cause' = "mkdir_failed"
            /\ UNCHANGED dirs
       ELSE /\ pc' = "list"
            /\ dirs' = dirs \cup Prefixes(OutputDir(input_path))
            /\ UNCHANGED <<success, cause>>
    /\ UNCHANGED <<posVars, argVars, files, corrupt, color, exit_code, todo,
                   processed_count, tags, exif_date, date_str, run, start, written,
                   attempted, opened, prev>>

\* process_directory: the list of files to go through
EnumerateFiles ==
    /\ pc = "list"
    /\ todo' = ListFiles(input_path)
    /\ processed_count' = 0
    /\ pc' = "loop"
    /\ UNCHANGED <<posVars, argVars, fsVars, color, success, exit_code, output_dir,
                   tags, exif_date, date_str, run, cause, start, written, attempted,
                   opened, prev>>

\* the loop body on a file without an image extension: continue
SkipFile ==
    /\ pc = "loop"
    /\ \E f \in todo :
          /\ ~IsImageFile(f)
          /\ todo' = todo \ {f}
    /\ UNCHANGED <<posVars, argVars, fsVars, color, success, exit_code, output_dir,
                   processed_count, tags, exif_date, date_str, pc, run, cause, start,
                   written, attempted, opened, prev>>

\* the loop body on an image file that add_watermark_to_image writes
WatermarkFile ==
    /\ pc = "loop"
    /\ \E f \in todo, exif \in ExifFiles :
          /\ IsImageFile(f)
          /\ ~RenderRaises(f, OutputPath(output_dir, f))
          /\ tags' = exif
          /\ exif_date' = get_exif_date(exif)
          /\ date_str' = WatermarkText(get_exif_date(exif))
          /\ xy' = calculate_position(img_width, img_height, text_width,
                                      text_height, position)
          /\ files' = files \cup {OutputPath(output_dir, f)}
          /\ corrupt' = corrupt \ {OutputPath(output_dir, f)}
          /\ written' = written \cup {[src |-> f, out |-> OutputPath(output_dir, f)]}
          /\ processed_count' = processed_count + 1
          /\ attempted' = Append(attempted, f)
          /\ opened' = opened \cup {f}
          /\ todo' = todo \ {f}
    /\ UNCHANGED <<img_width, img_height, text_width, text_height, position,
                   argVars, dirs, color, success, exit_code, output_dir, pc, run,
                   cause, start, prev>>

\* a failure of one file that ends the loop
FailFileAbort ==
    /\ pc = "loop"
    /\ \E f \in todo, exif \in ExifFiles :
          /\ IsImageFile(f)
          /\ RenderRaises(f, OutputPath(output_dir, f))
          /\ tags' = exif
          /\ exif_date' = get_exif_date(exif)
          /\ date_str' = WatermarkText(get_exif_date(exif))
          /\ attempted' = Append(attempted, f)
          /\ opened' = opened \cup {f}
          /\ todo' = {}
    /\ UNCHANGED <<posVars, argVars, fsVars, color, success, exit_code, output_dir,
                   processed_count, pc, run, cause, start, written, prev>>

\* the loop body on an image file on which add_watermark_to_image raises: the
\* exception is logged and the loop goes on
FailFile ==
    /\ pc = "loop"
    /\ \E f \in todo, exif \in ExifFiles :
          /\ IsImageFile(f)
          /\ RenderRaises(f, OutputPath(output_dir, f))
          /\ tags' = exif
          /\ exif_date' = get_exif_date(exif)
          /\ date_str' = WatermarkText(get_exif_date(exif))
          /\ attempted' = Append(attempted, f)
          /\ opened' = opened \cup {f}
          /\ todo' = todo \ {f}
    /\ UNCHANGED <<posVars, argVars, fsVars, color, success, exit_code, output_dir,
                   processed_count, pc, run, cause, start, written, prev>>

\* a return value that does not look at the count
FinishAlwaysTrue ==
    /\ pc = "loop"
    /\ todo = {}
    /\ success' = TRUE
    /\ cause' = "completed"
    /\ tags' = NoExif
    /\ exif_date' = None
    /\ date_str' = <<>>
    /\ pc' = "returned"
    /\ UNCHANGED <<posVars, argVars, fsVars, color, exit_code, output_dir, todo,
                   processed_count, run, start, written, attempted, opened, prev>>

\* process_directory: return processed_count > 0
Finish ==
    /\ pc = "loop"
    /\ todo = {}
    /\ success' = (processed_count > 0)
    /\ cause' = "completed"
    /\ tags' = NoExif
    /\ exif_date' = None
    /\ date_str' = <<>>
    /\ pc' = "returned"
    /\ UNCHANGED <<posVars, argVars, fsVars, color, exit_code, output_dir, todo,
                   processed_count, run, start, written, attempted, opened, prev>>

\* main: if not success: sys.exit(1); otherwise main returns
MainExit ==
    /\ pc = "returned"
    /\ exit_code' = IF success THEN 0 ELSE 1
    /\ pc' = "exit"
    /\ UNCHANGED <<posVars, argVars, fsVars, color, success, output_dir, todo,
                   processed_count, tags, exif_date, date_str, run, cause, start, written,
                   attempted, opened, prev>>

\* a KeyboardInterrupt between two files: no except Exception clause catches
\* it, main's handler exits with 1
Interrupt ==
    /\ pc = "loop"
    /\ exit_code' = 1
    /\ cause' = "interrupt"
    /\ tags' = NoExif
    /\ exif_date' = None
    /\ date_str' = <<>>
    /\ pc' = "exit"
    /\ UNCHANGED <<posVars, argVars, fsVars, color, success, output_dir, todo,
                   processed_count, run, start, written, attempted, opened, prev>>

\* the program is started again with the same command line, after a run that
\* was not interrupted
Rerun ==
    /\ pc = "exit"
    /\ cause # "interrupt"
    /\ run < MaxRuns
    /\ run' = run + 1
    /\ prev' = [ran |-> TRUE, cause |-> cause, dirs |-> dirs, files |-> files,
                written |-> written, count |-> processed_count,
                exit_code |-> exit_code]
    /\ start' = [dirs |-> dirs, files |-> files]
    /\ pc' = "main"
    /\ color' = NoColor
    /\ success' = FALSE
    /\ exit_code' = -1
    /\ output_dir' = <<>>
    /\ todo' = {}
    /\ processed_count' = 0
    /\ tags' = NoExif
    /\ exif_date' = None
    /\ date_str' = <<>>
    /\ xy' = <<>>
    /\ cause' = "running"
    /\ written' = {}
    /\ attempted' = <<>>
    /\ opened' = {}
    /\ UNCHANGED <<img_width, img_height, text_width, text_height, position,
                   argVars, fsVars>>

Next ==
    \/ MainParseColor
    \/ CheckPath
    \/ MakeOutputDir
    \/ EnumerateFiles
    \/ SkipFile
    \/ WatermarkFile
    \/ FailFile
    \/ Finish
    \/ MainExit
    \/ Interrupt
    \/ Rerun

Spec == Init /\ [][Next]_vars

----------------------------------------------------------------------------
\* calculate_position on its own

InitPos ==
    /\ img_width \in 0..MaxImg /\ img_height \in 0..MaxImg
    /\ text_width \in 0..MaxText /\ text_height \in 0..MaxText
    /\ position \in Anchors \cup {"middle"}
    /\ input_path = Q
    /\ color_str = White
    /\ dirs = {} /\ files = {} /\ corrupt = {}
    /\ InitLocals
    /\ run = 1
    /\ start = [dirs |-> dirs, files |-> files]
    /\ prev = NoRun

CalcPosition ==
    /\ xy = <<>>
    /\ xy' = calculate_position(img_width, img_height, text_width, text_height,
                                position)
    /\ UNCHANGED <<img_width, img_height, text_width, text_height, position,
                   argVars, fsVars, color, success, exit_code, pc, output_dir,
                   todo, processed_count, tags, exif_date, date_str, run, cause, start,
                   written, attempted, opened, prev>>

SpecPos == InitPos /\ [][CalcPosition]_vars

----------------------------------------------------------------------------
\* parse_color on its own

InitColor ==
    /\ img_width = MaxImg /\ img_height = MaxImg
    /\ text_width = MaxText /\ text_height = MaxText
    /\ position = "bottom-right"
    /\ input_path = Q
    /\ color_str \in ColorInputs(MaxHexLen)
    /\ dirs = {} /\ files = {} /\ corrupt = {}
    /\ InitLocals
    /\ run = 1
    /\ start = [dirs |-> dirs, files |-> files]
    /\ prev = NoRun

SpecColor == InitColor /\ [][MainParseColor]_vars

----------------------------------------------------------------------------
\* Properties of calculate_position (checked under SpecPos)

InRange(v, lo, hi) == lo <= v /\ v <= hi

Inside ==
    /\ InRange(xy[1], 0, img_width - text_width)
    /\ InRange(xy[2], 0, img_height - text_height)

\* C1 as stated: for each of the five anchors, whenever the image is at least
\* as large as the text, the returned position lies in
\* [0, image_width - text_width] x [0, image_height - text_height].
C1_AsStated ==
    (/\ xy # <<>>
     /\ position \in Anchors
     /\ img_width >= text_width
     /\ img_height >= text_height) => Inside

\* C1 amended: the position lies in that rectangle for the center anchor
\* whenever the image is at least as large as the text, and for the four
\* corner anchors whenever the image exceeds the text by at least the padding
\* (20) in both directions.
C1_Amended ==
    (/\ xy # <<>>
     /\ position \in Anchors
     /\ IF position = "center"
        THEN img_width >= text_width /\ img_height >= text_height
        ELSE img_width - text_width >= 20 /\ img_height - text_height >= 20)
    => Inside

\* a corner anchor at the smallest image the amended claim admits: x = 0
C1_Witness ==
    /\ xy # <<>>
    /\ position = "top-right"
    /\ img_width - text_width = 20
    /\ img_height - text_height >= 20
    /\ xy[1] = 0

\* C10 as stated: for the center anchor the coordinates are the halves of the
\* differences, truncated toward zero, also when a difference is negative and
\* odd.
C10_AsStated ==
    (xy # <<>> /\ position = "center") =>
        /\ xy[1] = TruncDiv(img_width - text_width, 2)
        /\ xy[2] = TruncDiv(img_height - text_height, 2)

\* C10 amended: for the center anchor the coordinates are the halves of the
\* differences rounded toward minus infinity (x is the integer with
\* 2x <= image_width - text_width <= 2x + 1, likewise y), without clamping,
\* also when a difference is negative and odd.
C10_Amended ==
    (xy # <<>> /\ position = "center") =>
        /\ 2 * xy[1] <= img_width - text_width
        /\ img_width - text_width <= 2 * xy[1] + 1
        /\ 2 * xy[2] <= img_height - text_height
        /\ img_height - text_height <= 2 * xy[2] + 1

\* a centered text three pixels wider than the image: x = -2, not -1
C10_Witness ==
    /\ xy # <<>>
    /\ position = "center"
    /\ img_width - text_width = -3
    /\ xy[1] = -2

----------------------------------------------------------------------------
\* Properties of parse_color (checked under SpecColor)

SixHexDigits(s) ==
    /\ Len(s) = 7
    /\ \A i \in 2..7 : IsHexDigit(LowerChar(s[i]))

\* C7: a '#'-prefixed string that is no colour name is accepted exactly when
\* six hexadecimal digits follow the '#', the result then being the triple of
\* the three 8-bit channel values; every other '#'-prefixed string (3, 4 or 8
\* digits, a non-hexadecimal character) is rejected.
C7_HexOnlySixDigits ==
    (pc # "main" /\ startswith(color_str, <<"#">>)) =>
        /\ color.ok <=> SixHexDigits(color_str)
        /\ color.ok =>
              /\ Len(color.value) = 3
              /\ \A i \in 1..3 :
                    color.value[i] = 16 * HexVal(LowerChar(color_str[2 * i]))
                                     + HexVal(LowerChar(color_str[2 * i + 1]))

----------------------------------------------------------------------------
\* Vocabulary of the batch properties (checked under Spec), stated over the
\* file system as it was when the run started

ExistedAtStart(p) ==
    \/ p \in start.files
    \/ p # <<>> /\ rstrip(p, {SEP}) \in start.dirs

\* f is an immediate entry of directory d
InDir(f, d) ==
    LET dn == rstrip(d, {SEP})
    IN  /\ Len(f) > Len(dn) + 1
        /\ SubSeq(f, 1, Len(dn) + 1) = dn \o <<SEP>>
        /\ \A i \in (Len(dn) + 2)..Len(f) : f[i] # SEP

\* the files the run has to consider: the input file, or the immediate file
\* entries of the input directory
Candidates ==
    IF input_path \in start.files THEN {input_path}
    ELSE {f \in start.files : InDir(f, input_path)}

AllowList == {<<"j", "p", "g">>, <<"j", "p", "e", "g">>, <<"p", "n", "g">>,
              <<"t", "i", "f", "f">>, <<"b", "m", "p">>, <<"g", "i", "f">>,
              <<"w", "e", "b", "p">>}

\* what follows the last dot of f, in lower case, is on the allow-list
HasAllowedExtension(f) ==
    \E k \in 1..Len(f) :
        /\ f[k] = "."
        /\ \A j \in (k + 1)..Len(f) : f[j] # "."
        /\ lower(SubSeq(f, k + 1, Len(f))) \in AllowList

Eligible == {f \in Candidates : HasAllowedExtension(f)}

Attempted == {attempted[i] : i \in 1..Len(attempted)}
Rendered == {w.src : w \in written}
Outputs == {w.out : w \in written}

\* process_directory ran to its return statement after the loop
Completed == cause = "completed"

\* the directory holding path p, and the name of p in it
ParentOf(p) ==
    IF \E i \in 1..Len(p) : p[i] = SEP
    THEN SubSeq(p, 1, (CHOOSE i \in 1..Len(p) :
                          p[i] = SEP /\ \A j \in (i + 1)..Len(p) : p[j] # SEP) - 1)
    ELSE <<>>

NameOf(p) ==
    IF \E i \in 1..Len(p) : p[i] = SEP
    THEN SubSeq(p, Len(ParentOf(p)) + 2, Len(p))
    ELSE p

\* the directory the outputs are expected in
ExpectedDir ==
    LET base == IF input_path \in start.files THEN ParentOf(input_path)
                ELSE rstrip(input_path, {SEP})
    IN  IF base = <<>> THEN WATERMARK
        ELSE base \o <<SEP>> \o NameOf(base) \o WATERMARK

\* <stem>_watermark<extension> of a file name; the extension starts at the
\* last dot, unless that dot starts the name
ExpectedName(n) ==
    IF \E k \in 2..Len(n) : n[k] = "."
    THEN LET k == CHOOSE i \in 2..Len(n) : n[i] = "." /\ \A j \in (i + 1)..Len(n) : n[j] # "."
         IN  SubSeq(n, 1, k - 1) \o WATERMARK \o SubSeq(n, k, Len(n))
    ELSE n \o WATERMARK

\* C2: a failure on one file never aborts the batch: when the loop is over,
\* every eligible candidate has been attempted exactly once, failed ones
\* included, and the reported count is the number of files whose rendering
\* and saving completed; a failed file is not counted.
C2_FailureIsolated ==
    Completed =>
        /\ Attempted = Eligible
        /\ Len(attempted) = Cardinality(Eligible)
        /\ processed_count = Cardinality(Rendered)
        /\ Rendered \subseteq Attempted
        /\ \A f \in Attempted : f \in corrupt => f \notin Rendered

\* the first file failed, the second was still rendered and counted
C2_Witness ==
    /\ Completed
    /\ Len(attempted) >= 2
    /\ attempted[1] \notin Rendered
    /\ attempted[2] \in Rendered
    /\ processed_count = 1

\* C3: with an input path that does not exist, or an invalid colour, the run
\* creates no directory, reads and writes no file, process (when it is
\* reached) reports failure, and the exit status is not zero.
C3_FatalErrorsTouchNothing ==
    (pc # "main" /\ (~color.ok \/ ~ExistedAtStart(input_path))) =>
        /\ dirs = start.dirs
        /\ files = start.files
        /\ opened = {}
        /\ written = {}
        /\ attempted = <<>>
        /\ pc \in {"process", "returned", "exit"}
        /\ ~color.ok => pc = "exit" /\ cause = "bad_color"
        /\ pc \in {"returned", "exit"} /\ color.ok => ~success /\ cause = "no_path"
        /\ pc = "exit" => exit_code # 0

\* a run on a missing path that has ended
C3_Witness ==
    /\ pc = "exit"
    /\ color.ok
    /\ cause = "no_path"
    /\ input_path = Q
    /\ exit_code = 1

\* C4: on a directory whose eligible files all render, the run leaves exactly
\* one output directory, writes one file per eligible file at pairwise
\* distinct paths, writes nothing for the other entries, and reports the
\* number of eligible files.
C4_DirectoryBatch ==
    (/\ Completed
     /\ input_path \notin start.files
     /\ Attempted \subseteq Rendered)
    => /\ processed_count = Cardinality(Eligible)
       /\ Rendered = Eligible
       /\ Cardinality(Outputs) = Cardinality(Eligible)
       /\ files = start.files \cup Outputs
       /\ dirs = start.dirs \cup {ExpectedDir}
       /\ \A o \in Outputs : InDir(o, ExpectedDir)

\* two eligible files, one of them with an upper-case extension, and a text
\* file: two outputs in a directory the run created
C4_Witness ==
    /\ Completed
    /\ input_path = P
    /\ join(P, NTxt) \in start.files
    /\ Eligible = {join(P, AJpg), join(P, AJPG)}
    /\ processed_count = 2
    /\ PWatermark \notin start.dirs
    /\ Cardinality(files \ start.files) = 2

\* C5: a second run on the same arguments leaves the files and directories of
\* the first, writes the same output paths, takes no output of the first run
\* as an input, and reports the same count.
C5_Idempotent ==
    (pc = "exit" /\ prev.ran /\ color.ok /\ cause # "interrupt") =>
        /\ files = prev.files
        /\ dirs = prev.dirs
        /\ Outputs = {w.out : w \in prev.written}
        /\ processed_count = prev.count
        /\ exit_code = prev.exit_code
        /\ Attempted \cap {w.out : w \in prev.written} = {}

\* a later run that rewrote the outputs of the run before it
C5_Witness ==
    /\ pc = "exit"
    /\ prev.ran
    /\ Completed
    /\ prev.count = 2
    /\ processed_count = 2
    /\ Outputs \subseteq start.files

\* C6: the exit status is 0 exactly when the run went through and at least
\* one file was watermarked; it is 1 for an invalid colour, a missing input
\* path, a run without any watermarked file, and an interrupt.
C6_ExitStatus ==
    pc = "exit" =>
        /\ exit_code \in {0, 1}
        /\ exit_code = 0 <=> (written # {} /\ cause # "interrupt")
        /\ ~color.ok => exit_code = 1
        /\ ~ExistedAtStart(input_path) => exit_code = 1
        /\ cause = "interrupt" => exit_code = 1

\* every eligible file of a directory failed: the run went through, exit 1
C6_Witness ==
    /\ pc = "exit"
    /\ Completed
    /\ attempted # <<>>
    /\ written = {}
    /\ exit_code = 1

\* C8: the output directory is the input directory's, or the input file's
\* parent's, own <basename>_watermark; every file written is
\* <stem>_watermark<extension> of its input inside that directory; nothing is
\* written anywhere else and no input file is overwritten.
C8_OutputPaths ==
    /\ pc \in {"list", "loop"} => output_dir = ExpectedDir
    /\ \A w \in written :
          /\ w.out = ExpectedDir \o <<SEP>> \o ExpectedName(NameOf(w.src))
          /\ w.out \notin Candidates
          /\ w.src \in Candidates
    /\ files \ start.files \subseteq Outputs
    /\ dirs \ start.dirs \subseteq {ExpectedDir}

\* the directory given with a trailing separator, an upper-case extension
C8_Witness ==
    /\ input_path = PSlash
    /\ [src |-> join(P, AJPG),
        out |-> <<"p", "/", "p", "_", "w", "a", "t", "e", "r", "m", "a", "r", "k", "/",
                  "a", "_", "w", "a", "t", "e", "r", "m", "a", "r", "k", ".", "J", "P", "G">>]
          \in written

\* d is the first whitespace-separated field of v
IsDatePortion(d, v) ==
    /\ d # <<>>
    /\ \A i \in 1..Len(d) : d[i] # " "
    /\ \E n \in 0..Len(v) :
          /\ \A i \in 1..n : v[i] = " "
          /\ n + Len(d) <= Len(v)
          /\ SubSeq(v, n + 1, n + Len(d)) = d
          /\ n + Len(d) < Len(v) => v[n + Len(d) + 1] = " "

IsBlank(v) == \A i \in 1..Len(v) : v[i] = " "

\* a file has just gone through the loop body
JustRead == pc = "loop" /\ attempted # <<>>

\* the text handed to the renderer: the date read, or today's
TextRule ==
    /\ date_str = (IF exif_date.none THEN Today ELSE exif_date.str)
    /\ date_str # <<>>

\* C9 as stated: the reader returns the date portion of the original-capture
\* tag when that tag is present, otherwise that of the generic tag when that
\* one is present, otherwise nothing; the current date stands in for nothing,
\* the text is never empty and no eligible file is skipped.
C9_AsStated ==
    /\ JustRead =>
          /\ IF tags.readable /\ DateTimeOriginal \in DOMAIN tags.tags
             THEN ~exif_date.none /\ IsDatePortion(exif_date.str, tags.tags[DateTimeOriginal])
             ELSE IF tags.readable /\ ImageDateTime \in DOMAIN tags.tags
             THEN ~exif_date.none /\ IsDatePortion(exif_date.str, tags.tags[ImageDateTime])
             ELSE exif_date.none
          /\ TextRule
    /\ Completed => Eligible \subseteq Attempted

\* C9 amended: the reader looks at the original-capture tag when it is
\* present and otherwise at the generic tag when that one is present; it
\* returns the date portion of the tag it looks at unless that tag is blank,
\* and nothing when the tag is blank, when neither tag is present or when the
\* metadata cannot be read; the current date stands in for nothing, the text
\* is never empty and no eligible file is skipped.
C9_Amended ==
    /\ JustRead =>
          /\ LET looked == IF DateTimeOriginal \in DOMAIN tags.tags
                           THEN DateTimeOriginal ELSE ImageDateTime
             IN  IF tags.readable /\ looked \in DOMAIN tags.tags
                    /\ ~IsBlank(tags.tags[looked])
                 THEN ~exif_date.none /\ IsDatePortion(exif_date.str, tags.tags[looked])
                 ELSE exif_date.none
          /\ TextRule
    /\ Completed => Eligible \subseteq Attempted

\* a blank original-capture tag beside a generic date: today's date is used
C9_Witness ==
    /\ JustRead
    /\ tags.readable
    /\ DOMAIN tags.tags = {DateTimeOriginal, ImageDateTime}
    /\ IsBlank(tags.tags[DateTimeOriginal])
    /\ tags.tags[ImageDateTime] = Stamp2
    /\ date_str = Today
    /\ attempted[Len(attempted)] \in Rendered

====
